---- MODULE Spec2Model ----
(***************************************************************************)
(* Model of the failed-download recovery script (src/failed.py) and of the *)
(* file naming of the original download pass (src/download.py).            *)
(*                                                                         *)
(* Text is modelled as a sequence of one-character strings.  Log lines and *)
(* image URLs are sequences of lexical tokens ("http://", ".jpg", " ", a   *)
(* path character): the pattern of extract_urls can neither start nor end  *)
(* inside one of these tokens, so matching on tokens is matching on the    *)
(* characters.                                                             *)
(***************************************************************************)
EXTENDS Integers, Sequences, FiniteSets, TLC

\* ------------------------------------------------------------------------
\* Bounds of the model
\* ------------------------------------------------------------------------
MaxCsv == 2
MaxLineLen == 3
MaxMentions == 2

\* ------------------------------------------------------------------------
\* Global parameters of src/failed.py
\* ------------------------------------------------------------------------
RETRY_LIMIT == 5
INITIAL_BACKOFF == 3
NEEDED_COLS == {"scientific_name", "image_url", "url"}

\* ------------------------------------------------------------------------
\* Text helpers
\* ------------------------------------------------------------------------
\* pandas' missing value; no text contains the element "NaN"
NaN == <<"NaN">>
\* the result of a failed column lookup
KeyError == <<"KeyError">>

isna(x) == x = NaN

LowerCase == <<"a","b","c","d","e","f","g","h","i","j","k","l","m",
               "n","o","p","q","r","s","t","u","v","w","x","y","z">>
UpperCase == <<"A","B","C","D","E","F","G","H","I","J","K","L","M",
               "N","O","P","Q","R","S","T","U","V","W","X","Y","Z">>
Digits == <<"0","1","2","3","4","5","6","7","8","9">>

Range(s) == {s[i] : i \in DOMAIN s}

\* \s of the regular expressions
IsSpace(c) == c \in {" ", "\t"}
\* \w of the regular expressions
IsWord(c) == c \in Range(LowerCase) \cup Range(UpperCase) \cup Range(Digits) \cup {"_"}

\* str.lower() on one character
lower_char(c) ==
  IF c \in Range(UpperCase)
  THEN LowerCase[CHOOSE i \in DOMAIN UpperCase : UpperCase[i] = c]
  ELSE c

lower(s) == [i \in DOMAIN s |-> lower_char(s[i])]

RECURSIVE lstrip(_)
lstrip(s) == IF s # <<>> /\ IsSpace(Head(s)) THEN lstrip(Tail(s)) ELSE s

RECURSIVE rstrip(_)
rstrip(s) ==
  IF s # <<>> /\ IsSpace(s[Len(s)]) THEN rstrip(SubSeq(s, 1, Len(s) - 1)) ELSE s

strip(s) == rstrip(lstrip(s))

\* re.sub(r"\s+", "_", s)
RECURSIVE sub_spaces(_)
sub_spaces(s) ==
  IF s = <<>> THEN <<>>
  ELSE IF IsSpace(Head(s)) THEN <<"_">> \o sub_spaces(lstrip(s))
  ELSE <<Head(s)>> \o sub_spaces(Tail(s))

\* re.sub(r"[^\w_-]", "", s)
RECURSIVE drop_unsafe(_)
drop_unsafe(s) ==
  IF s = <<>> THEN <<>>
  ELSE IF IsWord(Head(s)) \/ Head(s) \in {"_", "-"}
       THEN <<Head(s)>> \o drop_unsafe(Tail(s))
       ELSE drop_unsafe(Tail(s))

\* re.sub(r"\W+", "", s)
RECURSIVE drop_nonword(_)
drop_nonword(s) ==
  IF s = <<>> THEN <<>>
  ELSE IF IsWord(Head(s)) THEN <<Head(s)>> \o drop_nonword(Tail(s))
  ELSE drop_nonword(Tail(s))

\* s.split("/")[-1]
RECURSIVE last_segment(_)
last_segment(s) ==
  IF s = <<>> THEN <<>>
  ELSE IF s[Len(s)] = "/" THEN <<>>
  ELSE last_segment(SubSeq(s, 1, Len(s) - 1)) \o <<s[Len(s)]>>

\* str() of a cell: a missing value prints as "nan"
str(x) == IF isna(x) THEN <<"n","a","n">> ELSE x

\* str() of a non-negative integer
RECURSIVE str_int(_)
str_int(n) ==
  IF n < 10 THEN <<Digits[n + 1]>> ELSE str_int(n \div 10) \o <<Digits[(n % 10) + 1]>>

\* ------------------------------------------------------------------------
\* clean_directory_name and the two filename generators
\* ------------------------------------------------------------------------
clean_directory_name(name) ==
  IF isna(name) THEN <<"u","n","k","n","o","w","n">>
  ELSE drop_unsafe(sub_spaces(strip(lower(name))))

\* row.get("url", "")
row_get_url(row) == IF "url" \in DOMAIN row THEN row["url"] ELSE <<>>

obs_id_part(url) ==
  LET obs_id == drop_nonword(last_segment(str(url)))
  IN  IF obs_id # <<>> THEN <<"_">> \o obs_id ELSE <<>>

\* failed.py: the name the retry pass gives a row
generate_filename(row, default_idx) ==
  IF "scientific_name" \notin DOMAIN row THEN KeyError
  ELSE clean_directory_name(row["scientific_name"])
         \o obs_id_part(row_get_url(row))
         \o <<"_">> \o str_int(default_idx) \o <<".","j","p","g">>

\* download.py: the name the original pass gives a row it downloads
download_all_images_filename(row, idx) ==
  clean_directory_name(row["scientific_name"])
    \o obs_id_part(row["url"])
    \o <<"_">> \o str_int(idx) \o <<".","j","p","g">>

\* download.py: the rows the original pass does not skip
download_all_images_eligible(row) ==
  ~isna(row["scientific_name"]) /\ ~isna(row["image_url"])

\* ------------------------------------------------------------------------
\* extract_urls: re.compile(r"https?://[^\s]+\.(?:jpe?g|png)").findall per line
\* ------------------------------------------------------------------------
\* https?://
pattern_schemes == {"http://", "https://"}

pattern_exts_ignorecase == {".jpg", ".jpeg", ".png", ".JPG", ".Png"}
\* \.(?:jpe?g|png), compiled without flags
pattern_exts == {".jpg", ".jpeg", ".png"}

SetMax(S) == CHOOSE m \in S : \A x \in S : x <= m

\* the ends j at which the pattern, started at token i, can stop
match_ends(line, i) ==
  IF line[i] \notin pattern_schemes THEN {}
  ELSE {j \in (i + 2)..Len(line) :
          /\ line[j] \in pattern_exts
          /\ \A k \in (i + 1)..j : ~IsSpace(line[k])}

\* [^\s]+ is greedy: the match started at i stops at the last possible end
match_end(line, i) ==
  IF match_ends(line, i) = {} THEN 0 ELSE SetMax(match_ends(line, i))

\* pattern.findall(line): leftmost matches, scanning on after each match
RECURSIVE findall_from(_, _)
findall_from(line, i) ==
  IF i > Len(line) THEN {}
  ELSE IF match_end(line, i) = 0 THEN findall_from(line, i + 1)
  ELSE {SubSeq(line, i, match_end(line, i))}
         \cup findall_from(line, match_end(line, i) + 1)

findall(line) == findall_from(line, 1)

\* urls.update(...) over the lines of the file
RECURSIVE extract_urls(_)
extract_urls(text) ==
  IF text = <<>> THEN {} ELSE findall(Head(text)) \cup extract_urls(Tail(text))

\* ------------------------------------------------------------------------
\* Inputs: the CSV files, the error logs and the delays of a run
\* ------------------------------------------------------------------------
PantheraLeo == <<"P","a","n","t","h","e","r","a"," ","l","e","o">>
Obs123 == <<"h","t","t","p","s",":","/","/","x",".","o","r","g","/","o","b","s","/","1","2","3">>
U1 == <<"http://", "a", ".jpg">>
U2 == <<"https://", "b", ".png">>
U3 == <<"http://", "c", ".jpeg">>

\* every column, one eligible row
CsvFull ==
  [header |-> NEEDED_COLS \cup {"id"},
   rows |-> << [scientific_name |-> PantheraLeo, image_url |-> U1, url |-> Obs123,
                id |-> <<"1">>] >>]
\* every column, rows with a missing name, a missing image URL, a missing url
CsvGaps ==
  [header |-> NEEDED_COLS,
   rows |-> << [scientific_name |-> NaN, image_url |-> U1, url |-> NaN],
               [scientific_name |-> PantheraLeo, image_url |-> NaN, url |-> Obs123] >>]
CsvNoUrl ==
  [header |-> {"scientific_name", "image_url"},
   rows |-> << [scientific_name |-> PantheraLeo, image_url |-> U2] >>]
CsvNoName ==
  [header |-> {"image_url", "url"},
   rows |-> << [image_url |-> U3, url |-> Obs123] >>]
CsvNoImage ==
  [header |-> {"scientific_name", "url"},
   rows |-> << [scientific_name |-> PantheraLeo, url |-> Obs123] >>]

CsvFiles == {CsvFull, CsvGaps, CsvNoUrl, CsvNoName, CsvNoImage}

SeqsUpTo(S, n) == UNION {[1..k -> S] : k \in 1..n}

\* --csv takes one or more paths
CsvArgs == SeqsUpTo(CsvFiles, MaxCsv)

ErrorLine(u) == <<"E", " ">> \o u \o <<":", " ", "t">>

Logs ==
  { << <<"E", " ", "t">> >>,
    << ErrorLine(U1), <<"t">>, ErrorLine(U2), ErrorLine(U1) >>,
    << ErrorLine(U3) >> }

\* --delay, in time units
Delays == {0, 1}

\* ------------------------------------------------------------------------
\* State
\* ------------------------------------------------------------------------
VARIABLES
  csvs,            \* args.csv: the CSV files, in the order given
  logText,         \* the lines of args.error_file
  delay,           \* args.delay
  fs,              \* args.output_dir: file name -> contents
  pc,              \* where main() is
  failed_urls,     \* main: failed_urls
  subset,          \* main: subset, each row with its index label
  pos,             \* main: the position of the loop in subset
  success,         \* main: success
  error,           \* main: error
  attempt,         \* download_with_retries: attempt
  backoff,         \* download_with_retries: backoff
  outcome,         \* how the last attempt of the current call ended
  waits,           \* the backoff sleeps of the current call
  terminalErrors,  \* the logging.error lines of download_with_retries in this run
  results,         \* what this run did with each row of subset so far
  lastEvent,       \* the last request or sleep of this run
  lastSleep,       \* the duration of the last sleep of this run
  fetched,         \* whether this run has issued an HTTP request
  prevAllOk        \* whether the previous run completed with no failure

vars == <<csvs, logText, delay, fs, pc, failed_urls, subset, pos, success,
          error, attempt, backoff, outcome, waits, terminalErrors, results,
          lastEvent, lastSleep, fetched, prevAllOk>>

inputs == <<csvs, logText, delay>>
callVars == <<attempt, backoff, outcome, waits>>

\* ------------------------------------------------------------------------
\* Record Correlator: read_csv, concat, isin
\* ------------------------------------------------------------------------
\* pd.read_csv(csv_path, usecols=lambda c: c in NEEDED_COLS)
read_csv(csv) ==
  [cols |-> csv.header \cap NEEDED_COLS,
   rows |-> [i \in DOMAIN csv.rows |->
               [c \in csv.header \cap NEEDED_COLS |-> csv.rows[i][c]]]]

\* the rows of frames k.. of the list, each with its source and its index there
RECURSIVE stack_rows(_, _)
stack_rows(frames, k) ==
  IF k > Len(frames) THEN <<>>
  ELSE [i \in DOMAIN frames[k].rows |->
          [src |-> k, local |-> i - 1, row |-> frames[k].rows[i]]]
       \o stack_rows(frames, k + 1)

\* ignore_index=True: the index label is the position in the concatenation
concat_index(stacked, i) == i - 1

\* pd.concat(frames, ignore_index=True): the union of the columns, NaN where a
\* frame lacks a column
concat(frames) ==
  LET cols == UNION {frames[k].cols : k \in DOMAIN frames}
      stacked == stack_rows(frames, 1)
  IN  [cols |-> cols,
       rows |-> [i \in DOMAIN stacked |->
                   [idx |-> concat_index(stacked, i),
                    src |-> stacked[i].src,
                    local |-> stacked[i].local,
                    row |-> [c \in cols |->
                               IF c \in DOMAIN stacked[i].row
                               THEN stacked[i].row[c] ELSE NaN]]]]

load_data(paths) == concat([k \in DOMAIN paths |-> read_csv(paths[k])])

\* data["image_url"].isin(failed_urls), for one row
isin(r, urls) == r.row["image_url"] \in urls

correlate(data, urls) == SelectSeq(data.rows, LAMBDA r : isin(r, urls))

\* ------------------------------------------------------------------------
\* The output directory
\* ------------------------------------------------------------------------
exists_wrong_path(files, dest) == FALSE
\* os.path.exists(dest)
exists(files, dest) == dest \in DOMAIN files

\* open(dest, "wb") followed by the writes that happened
write(files, dest, content) ==
  [f \in DOMAIN files \cup {dest} |-> IF f = dest THEN content ELSE files[f]]

Body(u) == [of |-> u, state |-> "full"]
Truncated(u, st) == [of |-> u, state |-> st]

\* the row and the destination the loop of main is at
Cur == subset[pos]
Dest == generate_filename(Cur.row, Cur.idx)

\* ------------------------------------------------------------------------
\* Initial state: the process has been started on its arguments
\* ------------------------------------------------------------------------
FreshRun ==
  /\ pc = "start"
  /\ failed_urls = {}
  /\ subset = <<>>
  /\ pos = 0
  /\ success = 0
  /\ error = 0
  /\ attempt = 0
  /\ backoff = 0
  /\ outcome = "none"
  /\ waits = <<>>
  /\ terminalErrors = 0
  /\ results = <<>>
  /\ lastEvent = "none"
  /\ lastSleep = 0
  /\ fetched = FALSE

Init ==
  /\ csvs \in CsvArgs
  /\ logText \in Logs
  /\ delay \in Delays
  /\ fs = <<>>
  /\ prevAllOk = FALSE
  /\ FreshRun

\* ------------------------------------------------------------------------
\* main(), up to the loop (lines 147-173)
\* ------------------------------------------------------------------------
Setup ==
  /\ pc = "start"
  /\ LET urls == extract_urls(logText)
         data == load_data(csvs)
     IN  /\ failed_urls' = urls
         /\ IF urls = {}
            THEN pc' = "no_urls" /\ subset' = <<>>
            ELSE IF "image_url" \notin data.cols
            THEN pc' = "aborted" /\ subset' = <<>>
            ELSE /\ subset' = correlate(data, urls)
                 /\ pc' = IF correlate(data, urls) = <<>> THEN "no_rows" ELSE "loop"
  /\ pos' = 1
  /\ success' = 0
  /\ error' = 0
  /\ UNCHANGED <<inputs, fs, callVars, terminalErrors, results, lastEvent,
                 lastSleep, fetched, prevAllOk>>

\* ------------------------------------------------------------------------
\* main(), the loop (lines 174-183)
\* ------------------------------------------------------------------------
\* generate_filename raises: the column scientific_name is in no source
LoopKeyError ==
  /\ pc = "loop"
  /\ pos <= Len(subset)
  /\ Dest = KeyError
  /\ pc' = "aborted"
  /\ UNCHANGED <<inputs, fs, failed_urls, subset, pos, success, error,
                 callVars, terminalErrors, results, lastEvent, lastSleep, fetched,
                 prevAllOk>>

\* if os.path.exists(dest): continue
LoopSkip ==
  /\ pc = "loop"
  /\ pos <= Len(subset)
  /\ Dest # KeyError
  /\ exists(fs, Dest)
  /\ pos' = pos + 1
  /\ results' = Append(results, [idx |-> Cur.idx, what |-> "skipped"])
  /\ UNCHANGED <<inputs, fs, pc, failed_urls, subset, success, error,
                 callVars, terminalErrors, lastEvent, lastSleep, fetched, prevAllOk>>

\* download_with_retries(row["image_url"], dest) is entered
LoopCall ==
  /\ pc = "loop"
  /\ pos <= Len(subset)
  /\ Dest # KeyError
  /\ ~exists(fs, Dest)
  /\ pc' = "attempt"
  /\ attempt' = 1
  /\ backoff' = INITIAL_BACKOFF
  /\ outcome' = "none"
  /\ waits' = <<>>
  /\ UNCHANGED <<inputs, fs, failed_urls, subset, pos, success, error,
                 terminalErrors, results, lastEvent, lastSleep, fetched, prevAllOk>>

\* the loop is over: the tallies are logged
LoopEnd ==
  /\ pc = "loop"
  /\ pos > Len(subset)
  /\ pc' = "done"
  /\ UNCHANGED <<inputs, fs, failed_urls, subset, pos, success, error,
                 callVars, terminalErrors, results, lastEvent, lastSleep, fetched,
                 prevAllOk>>

\* ------------------------------------------------------------------------
\* download_with_retries (lines 89-105)
\* ------------------------------------------------------------------------
AttemptOutcomes == {"ok", "http_error", "timeout", "write_error"}

\* what an attempt that raised leaves at dest: requests.get or raise_for_status
\* raised before the file was opened, or open or a later write raised
LeftBehind(o) ==
  IF o = "write_error" THEN {"untouched", "empty", "partial"} ELSE {"untouched"}

\* the except clause does not touch dest
after_failure(files, dest, left) ==
  IF left = "untouched" THEN files
  ELSE write(files, dest, Truncated(Cur.row["image_url"], left))

failed_call_pc_raise == "aborted"
\* return False, and main goes on to error += 1 and the sleep
failed_call_pc == "delay"

retry_limit_reached_early(n) == n >= RETRY_LIMIT - 1
\* range(1, RETRY_LIMIT + 1) is exhausted
retry_limit_reached(n) == n >= RETRY_LIMIT

\* one pass of the for loop: the request, the write, the except clause, and on
\* the last pass the terminal error and the return to main
Attempt(o, left) ==
  /\ pc = "attempt"
  /\ outcome' = o
  /\ lastEvent' = "request"
  /\ fetched' = TRUE
  /\ IF o = "ok"
     THEN /\ fs' = write(fs, Dest, Body(Cur.row["image_url"]))
          /\ pc' = "delay"
          /\ success' = success + 1
          /\ results' = Append(results, [idx |-> Cur.idx, what |-> "ok"])
          /\ UNCHANGED <<error, terminalErrors>>
     ELSE /\ fs' = after_failure(fs, Dest, left)
          /\ IF retry_limit_reached(attempt)
             THEN /\ pc' = failed_call_pc
                  /\ terminalErrors' = terminalErrors + 1
                  /\ error' = error + 1
                  /\ results' = Append(results, [idx |-> Cur.idx, what |-> "failed"])
                  /\ UNCHANGED success
             ELSE /\ pc' = "backoff"
                  /\ UNCHANGED <<success, error, terminalErrors, results>>
  /\ UNCHANGED <<inputs, failed_urls, subset, pos, attempt, backoff, waits,
                 lastSleep, prevAllOk>>

next_backoff_linear(b) == b + INITIAL_BACKOFF
\* backoff *= 2
next_backoff(b) == b * 2

\* time.sleep(backoff); backoff *= 2; the next pass of the for loop
Backoff ==
  /\ pc = "backoff"
  /\ waits' = Append(waits, backoff)
  /\ lastEvent' = "sleep"
  /\ lastSleep' = backoff
  /\ backoff' = next_backoff(backoff)
  /\ attempt' = attempt + 1
  /\ pc' = "attempt"
  /\ UNCHANGED <<inputs, fs, failed_urls, subset, pos, success, error,
                 outcome, terminalErrors, results, fetched, prevAllOk>>

delay_after_only_success(o) == o = "ok"
\* time.sleep(args.delay) follows the call whatever it returned
delay_after(o) == TRUE

\* time.sleep(args.delay), and the loop moves on
Delay ==
  /\ pc = "delay"
  /\ IF delay_after(outcome)
     THEN lastEvent' = "sleep" /\ lastSleep' = delay
     ELSE UNCHANGED <<lastEvent, lastSleep>>
  /\ pos' = pos + 1
  /\ pc' = "loop"
  /\ attempt' = 0
  /\ backoff' = 0
  /\ outcome' = "none"
  /\ waits' = <<>>
  /\ UNCHANGED <<inputs, fs, failed_urls, subset, success, error,
                 terminalErrors, results, fetched, prevAllOk>>

\* ------------------------------------------------------------------------
\* The operator runs the script again on the same arguments
\* ------------------------------------------------------------------------
Ended == pc \in {"done", "no_urls", "no_rows", "aborted"}

Rerun ==
  /\ Ended
  /\ prevAllOk' = (pc = "done" /\ error = 0)
  /\ pc' = "start"
  /\ failed_urls' = {}
  /\ subset' = <<>>
  /\ pos' = 0
  /\ success' = 0
  /\ error' = 0
  /\ attempt' = 0
  /\ backoff' = 0
  /\ outcome' = "none"
  /\ waits' = <<>>
  /\ terminalErrors' = 0
  /\ results' = <<>>
  /\ lastEvent' = "none"
  /\ lastSleep' = 0
  /\ fetched' = FALSE
  /\ UNCHANGED <<inputs, fs>>

Next ==
  \/ Setup
  \/ LoopKeyError
  \/ LoopSkip
  \/ LoopCall
  \/ LoopEnd
  \/ \E o \in AttemptOutcomes : \E left \in LeftBehind(o) : Attempt(o, left)
  \/ Backoff
  \/ Delay
  \/ Rerun

Spec == Init /\ [][Next]_vars

\* ------------------------------------------------------------------------
\* extract_urls on its own, over generated log texts
\* ------------------------------------------------------------------------
LogTokens == {"http://", "https://", "a", " ", ".jpg", ".jpeg", ".png", ".JPG", ".Png"}

Lines == SeqsUpTo(LogTokens, MaxLineLen)

UpperUrl == <<"http://", "b", ".JPG">>

LogTails == {<<>>, <<ErrorLine(U1)>>, <<ErrorLine(UpperUrl)>>}

\* a line mentioned one or more times, then the rest of the log
GeneratedLogs ==
  {[k \in 1..n |-> l] \o t : l \in Lines, n \in 1..MaxMentions, t \in LogTails}

InitExtract ==
  /\ csvs = <<CsvFull>>
  /\ logText \in GeneratedLogs
  /\ delay = 0
  /\ fs = <<>>
  /\ prevAllOk = FALSE
  /\ FreshRun

ExtractUrls ==
  /\ pc = "start"
  /\ failed_urls' = extract_urls(logText)
  /\ pc' = "extracted"
  /\ UNCHANGED <<inputs, fs, subset, pos, success, error, callVars, terminalErrors,
                 results, lastEvent, lastSleep, fetched, prevAllOk>>

NextExtract == ExtractUrls

SpecExtract == InitExtract /\ [][NextExtract]_vars

\* ------------------------------------------------------------------------
\* Properties
\* ------------------------------------------------------------------------
InCall == pc \in {"attempt", "backoff"}
AtRecord == pc = "loop" /\ pos <= Len(subset)

\* C1: outside a running download_with_retries call, every file of the output
\* directory holds the complete body of a successful attempt; no zero-byte or
\* truncated file is left for a later run to skip.
C1_NoTruncatedFile ==
  ~InCall => \A f \in DOMAIN fs : fs[f].state = "full"

\* C2: at most 5 attempts per call; the backoff sleeps of a call are 3, 6, 12, 24
\* after the failed attempts 1..4 and none after the 5th; after a successful
\* attempt there is no further attempt and no backoff.
BackoffSchedule == <<3, 6, 12, 24>>

C2_RetrySchedule ==
  /\ attempt <= 5
  /\ pc \in {"attempt", "backoff", "delay"} =>
       /\ attempt >= 1
       /\ waits = SubSeq(BackoffSchedule, 1, attempt - 1)
  /\ InCall => outcome # "ok"
  /\ pc = "backoff" => attempt < 5
  /\ (pc = "delay" /\ outcome # "ok") => (attempt = 5 /\ waits = BackoffSchedule)

C2_Witness ==
  /\ pc = "delay"
  /\ outcome = "timeout"
  /\ attempt = 5
  /\ waits = <<3, 6, 12, 24>>

\* C3: when the 5th attempt of a call fails (HTTP error, timeout or write
\* error), the call returns to main instead of raising, one terminal error is
\* logged, error grows by 1 and success does not change; no other step of a call
\* logs a terminal error.
C3_ExhaustedCall ==
  [][pc = "attempt" =>
       IF attempt = 5 /\ outcome' \in {"http_error", "timeout", "write_error"}
       THEN /\ pc' = "delay"
            /\ terminalErrors' = terminalErrors + 1
            /\ error' = error + 1
            /\ success' = success
       ELSE /\ pc' # "aborted"
            /\ terminalErrors' = terminalErrors
            /\ error' = error]_vars

C3_Witness ==
  /\ pc = "delay"
  /\ outcome = "write_error"
  /\ attempt = 5
  /\ terminalErrors = 1
  /\ error = 1
  /\ success = 0

\* C4: no row with a missing scientific_name or a missing image_url is in the
\* correlated subset.
C4_OnlyEligibleCorrelated ==
  \A k \in DOMAIN subset :
    /\ ~isna(subset[k].row["image_url"])
    /\ "scientific_name" \in DOMAIN subset[k].row
         => ~isna(subset[k].row["scientific_name"])

\* C5: for every correlated row the original pass downloads, the retry pass
\* generates the file name the original pass generated from the row's own CSV.
C5_SameFilenameAsOriginal ==
  \A k \in DOMAIN subset :
    LET src == csvs[subset[k].src]
        orig == src.rows[subset[k].local + 1]
    IN  (NEEDED_COLS \subseteq src.header /\ download_all_images_eligible(orig))
          => generate_filename(subset[k].row, subset[k].idx)
               = download_all_images_filename(orig, subset[k].local)

\* C6: a correlated row whose destination exists is skipped without a request,
\* without a change of the tallies or of the file; a run that follows a
\* completed run without failures makes no request and counts 0 and 0.
C6_SkipExisting ==
  /\ [][(AtRecord /\ generate_filename(Cur.row, Cur.idx) \in DOMAIN fs) =>
          /\ pc' = "loop"
          /\ pos' = pos + 1
          /\ fs' = fs
          /\ success' = success
          /\ error' = error
          /\ fetched' = fetched]_vars
  /\ [](prevAllOk =>
          /\ ~fetched
          /\ success = 0
          /\ error = 0
          /\ pc \in {"start", "loop", "done"})

C6_Witness ==
  /\ prevAllOk
  /\ pc = "done"
  /\ Len(results) = 2
  /\ \A k \in DOMAIN results : results[k].what = "skipped"
  /\ \A f \in DOMAIN fs : fs[f].state = "full"

\* C7: when a source lacks one of the required columns, no request is made and
\* no file is written.
LacksColumn(csv) == ~(NEEDED_COLS \subseteq csv.header)

C7_AbortsOnMissingColumn ==
  (\E k \in DOMAIN csvs : LacksColumn(csvs[k])) =>
    /\ ~fetched
    /\ DOMAIN fs = {}
    /\ pc \notin {"attempt", "backoff", "delay"}

\* C8: the extracted set is exactly the set of matches in the lines of the log:
\* a match starts at http:// or https://, runs without whitespace over at least
\* one character to the last image extension it can reach, and does not start
\* inside an earlier match.
IsMatch(line, i, j, exts) ==
  /\ line[i] \in {"http://", "https://"}
  /\ j >= i + 2
  /\ line[j] \in exts
  /\ \A k \in (i + 1)..j : line[k] # " "

UrlsOfLine(line, exts) ==
  {SubSeq(line, p[1], p[2]) :
     p \in {q \in (DOMAIN line) \X (DOMAIN line) :
              /\ IsMatch(line, q[1], q[2], exts)
              /\ \A j \in DOMAIN line : IsMatch(line, q[1], j, exts) => j <= q[2]
              /\ \A i \in 1..(q[1] - 1) : \A j \in q[1]..Len(line) :
                   ~IsMatch(line, i, j, exts)}}

UrlsOfLog(text, exts) == UNION {UrlsOfLine(text[n], exts) : n \in DOMAIN text}

\* C8, as claimed: the extension is matched in any case
C8_CaseInsensitive ==
  pc = "extracted" =>
    failed_urls = UrlsOfLog(logText, {".jpg", ".jpeg", ".png", ".JPG", ".Png"})

\* C8, amended: the extension is matched in lower case only
C8_CaseSensitive ==
  pc = "extracted" => failed_urls = UrlsOfLog(logText, {".jpg", ".jpeg", ".png"})

C8_Witness ==
  /\ pc = "extracted"
  /\ logText = <<U1, U1, ErrorLine(UpperUrl)>>
  /\ failed_urls = {U1}

\* C9: the loop handles the rows of the subset one by one in order, each either
\* skipped or given one call; a failed call does not abort the run; a run that
\* started ends, and a completed run has success + error + skipped equal to the
\* number of correlated rows.
Count(what) == Cardinality({k \in DOMAIN results : results[k].what = what})

C9_Handled ==
  /\ \A k \in DOMAIN results : results[k].idx = subset[k].idx
  /\ pc \in {"loop", "attempt", "backoff"} => Len(results) = pos - 1
  /\ pc = "delay" => Len(results) = pos
  /\ success = Count("ok")
  /\ error = Count("failed")
  /\ pc = "done" =>
       /\ Len(results) = Len(subset)
       /\ success + error + Count("skipped") = Len(subset)
  /\ pc = "aborted" => (results = <<>> /\ ~fetched)

\* the steps a run has left at most: every step of a run lowers it, and a run
\* that has not ended is at a point of main() from which a step is possible
Rank ==
  IF Ended THEN 0
  ELSE IF pc = "start" THEN 12 * (Len(subset) + 2)
  ELSE 12 * (Len(subset) - pos + 1)
         + (CASE pc = "loop" -> 11
              [] pc = "attempt" -> 12 - 2 * attempt
              [] pc = "backoff" -> 11 - 2 * attempt
              [] pc = "delay" -> 1)

C9_EveryRecordOnce ==
  /\ []C9_Handled
  /\ [](~Ended => \/ pc \in {"start", "attempt", "backoff", "delay"}
                   \/ (pc = "loop" /\ pos >= 1))
  /\ [][(~Ended /\ pc # "start") => (Rank' < Rank /\ Rank' >= 0)]_vars
  /\ [][pc = "start" => pc' # "start"]_vars

C9_Witness ==
  /\ pc = "done"
  /\ Len(results) = 2
  /\ results[1].what = "failed"
  /\ results[2].what = "ok"

\* C10: a request is never issued right after a request: a retry follows its
\* backoff sleep, the row after a call follows the sleep of the delay, whatever
\* the call returned; a skipped row sleeps nothing.
C10_Spacing ==
  /\ pc = "attempt" => lastEvent # "request"
  /\ (pc = "attempt" /\ attempt > 1) =>
       (lastEvent = "sleep" /\ lastSleep = INITIAL_BACKOFF * 2 ^ (attempt - 2))
  /\ (pc = "loop" /\ fetched) => (lastEvent = "sleep" /\ lastSleep = delay)

C10_SleepBetweenRequests ==
  /\ []C10_Spacing
  /\ [][(AtRecord /\ generate_filename(Cur.row, Cur.idx) \in DOMAIN fs) =>
          (lastEvent' = lastEvent /\ lastSleep' = lastSleep)]_vars

C10_Witness ==
  /\ pc = "attempt"
  /\ attempt = 1
  /\ pos = 2
  /\ results[1].what = "failed"
  /\ lastEvent = "sleep"

====
